---- MODULE Spec2Model ----
(***************************************************************************)
(* Model of the knowledge base of the bilingual assistant                  *)
(* (src/app/knowledge_base.py): the three JSON documents loaded by the     *)
(* constructor and the read operations that search and format them.        *)
(*                                                                         *)
(* Text is a sequence of fragments (tokens).  A fragment stands for a      *)
(* piece of a Python string; str.lower() acts fragment by fragment, the    *)
(* `in` operator is containment of a contiguous run of fragments, and      *)
(* "\n".join is concatenation with the line-break fragment in between.     *)
(***************************************************************************)
EXTENDS Integers, Sequences, FiniteSets, TLC

VARIABLES data_files, dictionary, grammar, phrases, op, args, ret, examined,
          requests, page

vars == <<data_files, dictionary, grammar, phrases, op, args, ret, examined,
          requests, page>>

(***************************************************************************)
(* Bounds                                                                  *)
(***************************************************************************)
MaxEntries == 2      \* entries per category
MaxResults == 2      \* explicit max_results arguments are 1..MaxResults
MaxPhrases == 1      \* phrases per section of the phrase book
MaxBytes == 5        \* bytes of PCM audio handed to the transcription

DefaultMaxResults == 10

(***************************************************************************)
(* Python primitives on text and dicts                                     *)
(***************************************************************************)
NL == "\n"

Lower(tok) ==
    CASE tok = "Ma" -> "ma"
      [] tok = "Yu" -> "yu"
      [] tok = "Buenos" -> "buenos"
      [] tok = "No se encontraron" -> "no se encontraron"
      [] OTHER -> tok

LowerText(s) == [i \in 1..Len(s) |-> Lower(s[i])]

\* t in s
Contains(s, t) ==
    \E i \in 0..(Len(s) - Len(t)) : SubSeq(s, i + 1, i + Len(t)) = t

\* d.get(k, default)
Get(d, k, default) == IF k \in DOMAIN d THEN d[k] ELSE default

\* bool(x) of a dict or a list / string
TruthyDict(d) == DOMAIN d # {}
TruthyText(s) == Len(s) > 0

RECURSIVE Join(_, _)
\* sep.join(parts), sep a single fragment
Join(parts, sep) ==
    IF Len(parts) = 0 THEN <<>>
    ELSE IF Len(parts) = 1 THEN parts[1]
    ELSE parts[1] \o <<sep>> \o Join(Tail(parts), sep)

\* the empty JSON object, also what _load_json returns for a missing file
EmptyDoc == [x \in {} |-> <<>>]

\* outcome of a call: a returned value, or an exception
Returns(v) == [raised |-> FALSE, value |-> v]
Raises(e) == [raised |-> TRUE, value |-> <<e>>]

(***************************************************************************)
(* _load_json                                                              *)
(***************************************************************************)
_load_json(files, filename) ==
    IF filename \notin DOMAIN files THEN EmptyDoc ELSE files[filename]

(***************************************************************************)
(* search_dictionary                                                       *)
(***************************************************************************)
NoEntriesSentinel == <<"No se encontraron", " entradas relevantes.">>

\* the dictionary's categories as the ordered list of items() pairs
Categories(dict) == Get(dict, "categories", <<>>)

\* variant: the stored terms are compared without lower-casing them
EntryMatches_CaseSensitive(entry, query_lower) ==
    \/ Contains(Get(entry, "awajun", <<>>), query_lower)
    \/ Contains(Get(entry, "spanish", <<>>), query_lower)

EntryMatches(entry, query_lower) ==
    LET awajun == LowerText(Get(entry, "awajun", <<>>))
        spanish == LowerText(Get(entry, "spanish", <<>>))
    IN Contains(awajun, query_lower) \/ Contains(spanish, query_lower)

HasContext(entry) == TruthyText(Get(entry, "context", <<>>))

\* the f-string of a result line; subscripting a missing key raises KeyError
EntryLineRaises(entry) == ~({"awajun", "spanish"} \subseteq DOMAIN entry)

\* variant: the note is parenthesised whenever the key is present
EntryLine_ContextKey(entry) ==
    <<"  ">> \o entry["awajun"] \o <<" = ">> \o entry["spanish"]
        \o (IF "context" \in DOMAIN entry THEN <<" (">> \o entry["context"] \o <<")">>
            ELSE <<>>)

EntryLine(entry) ==
    <<"  ">> \o entry["awajun"] \o <<" = ">> \o entry["spanish"]
        \o (IF HasContext(entry) THEN <<" (">> \o entry["context"] \o <<")">> ELSE <<>>)

\* variant: results.insert(0, line)
AppendResult_Front(results, line) == <<line>> \o results

\* results.append(line)
AppendResult(results, line) == Append(results, line)

\* variant: the loop is left one match early
LimitReached_OffByOne(results, max_results) == Len(results) + 1 >= max_results

\* the break condition after each entry
LimitReached(results, max_results) == Len(results) >= max_results

RECURSIVE ScanEntries(_, _, _, _, _, _)
\* the inner loop over one category's entries, from entry i on
ScanEntries(cat_key, entries, i, query_lower, max_results, acc) ==
    IF i > Len(entries) THEN acc
    ELSE LET entry == entries[i]
             seen == Append(acc.examined, <<cat_key, i>>)
             hit == EntryMatches(entry, query_lower)
         IN IF hit /\ EntryLineRaises(entry)
            THEN [results |-> acc.results, examined |-> seen, raised |-> TRUE]
            ELSE LET res == IF hit THEN AppendResult(acc.results, EntryLine(entry))
                                   ELSE acc.results
                     next == [results |-> res, examined |-> seen, raised |-> FALSE]
                 IN IF LimitReached(res, max_results)
                    THEN next
                    ELSE ScanEntries(cat_key, entries, i + 1, query_lower,
                                     max_results, next)

RECURSIVE ScanCategories_StopsAtLimit(_, _, _, _, _)
\* variant: the outer loop ends as well once the limit is reached
ScanCategories_StopsAtLimit(categories, c, query_lower, max_results, acc) ==
    IF c > Len(categories) \/ acc.raised \/ LimitReached(acc.results, max_results) THEN acc
    ELSE LET category == categories[c].value
             after == ScanEntries(categories[c].key, Get(category, "entries", <<>>),
                                  1, query_lower, max_results, acc)
         IN ScanCategories_StopsAtLimit(categories, c + 1, query_lower, max_results, after)

RECURSIVE ScanCategories(_, _, _, _, _)
\* the outer loop over categories.items(), from category c on
ScanCategories(categories, c, query_lower, max_results, acc) ==
    IF c > Len(categories) \/ acc.raised THEN acc
    ELSE LET category == categories[c].value
             after == ScanEntries(categories[c].key, Get(category, "entries", <<>>),
                                  1, query_lower, max_results, acc)
         IN ScanCategories(categories, c + 1, query_lower, max_results, after)

SearchScan(dict, query, max_results) ==
    ScanCategories(Categories(dict), 1, LowerText(query), max_results,
                   [results |-> <<>>, examined |-> <<>>, raised |-> FALSE])

SearchReturn(results) ==
    IF Len(results) = 0 THEN NoEntriesSentinel ELSE Join(results, NL)

search_dictionary(dict, query, max_results) ==
    LET scan == SearchScan(dict, query, max_results)
    IN IF scan.raised THEN Raises("KeyError")
       ELSE Returns(SearchReturn(scan.results))

(***************************************************************************)
(* get_category_vocabulary                                                 *)
(***************************************************************************)
\* categories.keys()
CategoryKeyList(categories) == [i \in 1..Len(categories) |-> categories[i].key]

HasCategory(categories, category) ==
    \E i \in 1..Len(categories) : categories[i].key = category

\* variant: the first category's record is used for every known key
CategoryData_First(categories, category) ==
    IF HasCategory(categories, category) THEN categories[1].value ELSE EmptyDoc

\* categories.get(category, {})
CategoryData(categories, category) ==
    IF HasCategory(categories, category)
    THEN categories[CHOOSE i \in 1..Len(categories) : categories[i].key = category].value
    ELSE EmptyDoc

\* variant: " ".join(categories.keys())
AvailableList_Spaces(categories) ==
    Join([i \in 1..Len(categories) |-> <<categories[i].key>>], " ")

AvailableList(categories) ==
    Join([i \in 1..Len(categories) |-> <<categories[i].key>>], ", ")

NotFoundMessage(categories, category) ==
    <<"Categoría '", category, "' ", "no encontrada", ". Disponibles: ">>
        \o AvailableList(categories)

CategoryHeader(cat_data, category) == <<"## ", Get(cat_data, "name_es", category)>>

CategoryLine(entry) ==
    <<"  ">> \o entry["awajun"] \o <<" = ">> \o entry["spanish"]
        \o (IF HasContext(entry) THEN <<" (">> \o entry["context"] \o <<")">> ELSE <<>>)

CategoryLines(cat_data, category) ==
    LET entries == Get(cat_data, "entries", <<>>)
    IN <<CategoryHeader(cat_data, category)>>
           \o [i \in 1..Len(entries) |-> CategoryLine(entries[i])]

AnyEntryRaises(entries) == \E i \in 1..Len(entries) : EntryLineRaises(entries[i])

get_category_vocabulary(dict, category) ==
    LET categories == Categories(dict)
        cat_data == CategoryData(categories, category)
    IN IF ~TruthyDict(cat_data)
       THEN Returns(NotFoundMessage(categories, category))
       ELSE IF AnyEntryRaises(Get(cat_data, "entries", <<>>))
       THEN Raises("KeyError")
       ELSE Returns(Join(CategoryLines(cat_data, category), NL))

(***************************************************************************)
(* get_all_vocabulary_context                                              *)
(***************************************************************************)
ContextHeader(category, cat_key) == <<NL, "[", Get(category, "name_es", cat_key), "]">>

ContextLine(entry) == <<"  ">> \o entry["awajun"] \o <<" = ">> \o entry["spanish"]

RECURSIVE ContextLines(_, _)
\* the lines appended for categories c, c+1, ...
ContextLines(categories, c) ==
    IF c > Len(categories) THEN <<>>
    ELSE LET category == categories[c].value
             entries == Get(category, "entries", <<>>)
         IN <<ContextHeader(category, categories[c].key)>>
                \o [i \in 1..Len(entries) |-> ContextLine(entries[i])]
                \o ContextLines(categories, c + 1)

\* variant: the context is cut after three lines
get_all_vocabulary_context_Truncated(dict) ==
    LET lines == ContextLines(Categories(dict), 1)
    IN Returns(Join(SubSeq(lines, 1, IF Len(lines) < 3 THEN Len(lines) ELSE 3), NL))

get_all_vocabulary_context(dict) ==
    LET categories == Categories(dict)
    IN IF \E c \in 1..Len(categories) :
              AnyEntryRaises(Get(categories[c].value, "entries", <<>>))
       THEN Raises("KeyError")
       ELSE Returns(Join(ContextLines(categories, 1), NL))

get_available_categories(dict) == Returns(CategoryKeyList(Categories(dict)))

(***************************************************************************)
(* get_grammar_context                                                     *)
(***************************************************************************)
NoGrammarSentinel == <<"No hay reglas gramaticales disponibles.">>

WordOrderLines(word_order) ==
    LET examples == Get(word_order, "examples", <<>>)
    IN << <<"ORDEN DE PALABRAS: ">> \o Get(word_order, "basic", <<>>) \o <<" - ">>
              \o Get(word_order, "description", <<>>) >>
       \o [i \in 1..Len(examples) |->
              <<"  Ejemplo: ">> \o examples[i]["awajun"] \o <<" = ">>
                  \o examples[i]["spanish_natural"]]

ConjugationLines(conjugation) ==
    LET suffixes == Get(conjugation, "present_tense_suffixes", <<>>)
    IN << <<NL, "CONJUGACIÓN: ">> \o Get(conjugation, "description", <<>>) >>
       \o [i \in 1..Len(suffixes) |->
              <<"  ", suffixes[i].key, ": ">> \o suffixes[i].value]

SuffixLines(suffixes_section) ==
    LET common == Get(suffixes_section, "common_suffixes", <<>>)
    IN << <<NL, "SUFIJOS COMUNES:">> >>
       \o [i \in 1..Len(common) |->
              <<"  ", common[i]["suffix"], ": ">> \o common[i]["meaning"]
                  \o <<" (ej: ">> \o common[i]["example"] \o <<")">>]

NegationLines(negation) ==
    << <<NL, "NEGACIÓN: ">> \o Get(negation, "description", <<>>) >>

\* variant: a section is rendered whenever its key is present
SectionShown_KeyPresent(gram, section) == section \in DOMAIN gram

\* a section is rendered when its value is a non-empty dict
SectionShown(gram, section) == TruthyDict(Get(gram, section, EmptyDoc))

\* variant: negation is rendered before the other sections
GrammarLines_NegationFirst(gram) ==
    (IF SectionShown(gram, "negation")
        THEN NegationLines(gram["negation"]) ELSE <<>>)
    \o (IF SectionShown(gram, "word_order")
        THEN WordOrderLines(gram["word_order"]) ELSE <<>>)
    \o (IF SectionShown(gram, "verb_conjugation")
        THEN ConjugationLines(gram["verb_conjugation"]) ELSE <<>>)
    \o (IF SectionShown(gram, "suffixes")
        THEN SuffixLines(gram["suffixes"]) ELSE <<>>)

GrammarLines(gram) ==
    (IF SectionShown(gram, "word_order")
        THEN WordOrderLines(gram["word_order"]) ELSE <<>>)
    \o (IF SectionShown(gram, "verb_conjugation")
        THEN ConjugationLines(gram["verb_conjugation"]) ELSE <<>>)
    \o (IF SectionShown(gram, "suffixes")
        THEN SuffixLines(gram["suffixes"]) ELSE <<>>)
    \o (IF SectionShown(gram, "negation")
        THEN NegationLines(gram["negation"]) ELSE <<>>)

\* variant: no guard for the empty grammar
get_grammar_context_NoGuard(gram) == Returns(Join(GrammarLines(gram), NL))

\* variant: the sentinel stands in whenever nothing is rendered
get_grammar_context_BlankSentinel(gram) ==
    IF GrammarLines(gram) = <<>> THEN Returns(NoGrammarSentinel)
    ELSE Returns(Join(GrammarLines(gram), NL))

get_grammar_context(gram) ==
    IF ~TruthyDict(gram) THEN Returns(NoGrammarSentinel)
    ELSE Returns(Join(GrammarLines(gram), NL))

(***************************************************************************)
(* get_matching_phrases and the phrase accessors                           *)
(***************************************************************************)
NoPhrasesSentinel == <<"No se encontraron", " frases relevantes.">>

SectionKeys == <<"classroom_phrases", "daily_interaction", "cultural_expressions">>

PhraseMatches(phrase, query_lower) ==
    LET spanish == LowerText(Get(phrase, "spanish", <<>>))
        awajun == LowerText(Get(phrase, "awajun", <<>>))
    IN Contains(spanish, query_lower) \/ Contains(awajun, query_lower)

PhraseRaises(phrase) == ~({"awajun", "spanish"} \subseteq DOMAIN phrase)

\* variant: the pronunciation line is added whenever the key is present
PhraseItems_GuideKey(phrase) ==
    << <<"  ES: ">> \o phrase["spanish"] \o <<NL, "  AW: ">> \o phrase["awajun"] >>
    \o (IF "pronunciation_guide" \in DOMAIN phrase
        THEN << <<"  Pronunciación: ">> \o phrase["pronunciation_guide"] >>
        ELSE <<>>)
    \o << <<>> >>

\* the items appended to results for one matching phrase
PhraseItems(phrase) ==
    << <<"  ES: ">> \o phrase["spanish"] \o <<NL, "  AW: ">> \o phrase["awajun"] >>
    \o (IF TruthyText(Get(phrase, "pronunciation_guide", <<>>))
        THEN << <<"  Pronunciación: ">> \o phrase["pronunciation_guide"] >>
        ELSE <<>>)
    \o << <<>> >>

RECURSIVE SectionItems(_, _, _)
SectionItems(section, i, query_lower) ==
    IF i > Len(section) THEN <<>>
    ELSE (IF PhraseMatches(section[i], query_lower)
          THEN PhraseItems(section[i]) ELSE <<>>)
         \o SectionItems(section, i + 1, query_lower)

RECURSIVE PhraseResults(_, _, _)
PhraseResults(phr, k, query_lower) ==
    IF k > Len(SectionKeys) THEN <<>>
    ELSE SectionItems(Get(phr, SectionKeys[k], <<>>), 1, query_lower)
         \o PhraseResults(phr, k + 1, query_lower)

get_matching_phrases(phr, query) ==
    LET query_lower == LowerText(query)
        results == PhraseResults(phr, 1, query_lower)
    IN IF \E k \in 1..Len(SectionKeys) :
              \E i \in 1..Len(Get(phr, SectionKeys[k], <<>>)) :
                  /\ PhraseMatches(Get(phr, SectionKeys[k], <<>>)[i], query_lower)
                  /\ PhraseRaises(Get(phr, SectionKeys[k], <<>>)[i])
       THEN Raises("KeyError")
       ELSE IF Len(results) = 0 THEN Returns(NoPhrasesSentinel)
       ELSE Returns(Join(results, NL))

get_classroom_phrases(phr) == Returns(Get(phr, "classroom_phrases", <<>>))

get_cultural_expressions(phr) == Returns(Get(phr, "cultural_expressions", <<>>))

(***************************************************************************)
(* The generation endpoint client (src/app/nova_lite.py).  An operation    *)
(* yields the outcome handed to its caller and the list of requests it     *)
(* sent; a request is recorded with the endpoint's answer to it.           *)
(***************************************************************************)
SOURCE_LANGUAGE_NAME == "Español"
LanguageName == "Awajún"

Request(system_prompt, user_message, reply) ==
    [system_prompt |-> system_prompt, user_message |-> user_message, reply |-> reply]

Outcome(outcome, sent) == [ret |-> outcome, requests |-> sent]

\* variant: a failed request is sent a second time
invoke_Retry(system_prompt, user_message, reply) ==
    IF reply.raised
    THEN Outcome(reply, << Request(system_prompt, user_message, reply),
                           Request(system_prompt, user_message, reply) >>)
    ELSE Outcome(reply, << Request(system_prompt, user_message, reply) >>)

\* one invoke_model call; a failure of the call or of reading the reply is not caught
invoke(system_prompt, user_message, reply) ==
    Outcome(reply, << Request(system_prompt, user_message, reply) >>)

\* variant: the grammar section is built whatever the grammar context is
_build_translation_prompt_NoGrammarGuard(source_lang, target_lang, dictionary_context, grammar_context) ==
    <<"Eres un traductor especializado entre ", source_lang, " y ", target_lang,
      ". Tu tarea es producir traducciones precisas y culturalmente apropiadas.",
      NL, NL, "REGLAS IMPORTANTES:", NL,
      "- Si no conoces una palabra exacta, usa la más cercana y marca con [aprox.]", NL,
      "- Respeta las estructuras gramaticales de ", target_lang, NL>>
    \o (IF TruthyText(dictionary_context)
        THEN <<NL, "DICCIONARIO DE REFERENCIA:", NL>> \o dictionary_context \o <<NL>>
        ELSE <<>>)
    \o <<NL, "REGLAS GRAMATICALES:", NL>> \o grammar_context \o <<NL>>

_build_translation_prompt(source_lang, target_lang, dictionary_context, grammar_context) ==
    <<"Eres un traductor especializado entre ", source_lang, " y ", target_lang,
      ". Tu tarea es producir traducciones precisas y culturalmente apropiadas.",
      NL, NL, "REGLAS IMPORTANTES:", NL,
      "- Si no conoces una palabra exacta, usa la más cercana y marca con [aprox.]", NL,
      "- Respeta las estructuras gramaticales de ", target_lang, NL>>
    \o (IF TruthyText(dictionary_context)
        THEN <<NL, "DICCIONARIO DE REFERENCIA:", NL>> \o dictionary_context \o <<NL>>
        ELSE <<>>)
    \o (IF TruthyText(grammar_context)
        THEN <<NL, "REGLAS GRAMATICALES:", NL>> \o grammar_context \o <<NL>>
        ELSE <<>>)

translate(text, source_lang, target_lang, dictionary_context, grammar_context, reply) ==
    invoke(_build_translation_prompt(source_lang, target_lang,
                                     dictionary_context, grammar_context),
           <<"Traduce el siguiente texto de ", source_lang, " a ", target_lang, ":", NL, NL>>
               \o text \o <<NL, NL, "Devuelve SOLO la traducción, sin explicaciones.">>,
           reply)

nova_generate_lesson(topic, target_lang, difficulty, dictionary_context, reply) ==
    invoke(<<"Eres un experto en educación intercultural bilingüe en Perú. ",
             "Creas materiales educativos bilingües en Español y ", target_lang, ". ",
             NL, NL, "Contexto lingüístico disponible:", NL>> \o dictionary_context,
           <<"Crea una lección bilingüe (Español/", target_lang, ") sobre: ">> \o topic
               \o <<NL, "Nivel: ", difficulty, NL, NL, "La lección debe incluir:">>,
           reply)

explain_cultural_context(text, language, cultural_notes, reply) ==
    invoke(<<"Eres un mediador cultural especializado en la cultura ", language,
             " de la Amazonía peruana.", NL, NL,
             "Notas culturales disponibles:", NL>> \o cultural_notes,
           <<"Explica el contexto cultural de este mensaje en ", language, ":", NL, NL, "\"">>
               \o text \o <<"\"", NL, NL, "Incluye:">>,
           reply)

(***************************************************************************)
(* The translator (src/app/translator.py)                                  *)
(***************************************************************************)
NoResultsMarker == <<"No se encontraron">>

\* the callers' test of a knowledge-base text: empty, or carrying the marker
LooksEmpty(text) == ~TruthyText(text) \/ Contains(text, NoResultsMarker)

PhrasesHeader == <<NL, NL, "FRASES SIMILARES CONOCIDAS:", NL>>

\* variant: the phrase block is appended whatever get_matching_phrases returned
FullDictContext_Always(dictionary_context, matching_phrases) ==
    dictionary_context \o PhrasesHeader \o matching_phrases

FullDictContext(dictionary_context, matching_phrases) ==
    IF ~LooksEmpty(matching_phrases)
    THEN dictionary_context \o PhrasesHeader \o matching_phrases
    ELSE dictionary_context

translate_to_indigenous(dict, gram, phr, spanish_text, reply) ==
    LET dictionary_context == get_all_vocabulary_context(dict)
        grammar_context == get_grammar_context(gram)
        matching_phrases == get_matching_phrases(phr, spanish_text)
    IN IF dictionary_context.raised THEN Outcome(dictionary_context, <<>>)
       ELSE IF matching_phrases.raised THEN Outcome(matching_phrases, <<>>)
       ELSE LET translation ==
                    translate(spanish_text, SOURCE_LANGUAGE_NAME, LanguageName,
                              FullDictContext(dictionary_context.value, matching_phrases.value),
                              grammar_context.value, reply)
                dictionary_matches == search_dictionary(dict, spanish_text, DefaultMaxResults)
            IN IF translation.ret.raised THEN translation
               ELSE IF dictionary_matches.raised
                    THEN Outcome(dictionary_matches, translation.requests)
               ELSE Outcome(Returns([original |-> spanish_text,
                                     translation |-> translation.ret.value,
                                     source_lang |-> SOURCE_LANGUAGE_NAME,
                                     target_lang |-> LanguageName,
                                     dictionary_matches |-> dictionary_matches.value]),
                            translation.requests)

translate_to_spanish(dict, gram, indigenous_text, reply) ==
    LET dictionary_context == get_all_vocabulary_context(dict)
        grammar_context == get_grammar_context(gram)
    IN IF dictionary_context.raised THEN Outcome(dictionary_context, <<>>)
       ELSE LET translation ==
                    translate(indigenous_text, LanguageName, SOURCE_LANGUAGE_NAME,
                              dictionary_context.value, grammar_context.value, reply)
            IN IF translation.ret.raised THEN translation
               ELSE Outcome(Returns([original |-> indigenous_text,
                                     translation |-> translation.ret.value,
                                     source_lang |-> LanguageName,
                                     target_lang |-> SOURCE_LANGUAGE_NAME]),
                            translation.requests)

generate_lesson(dict, topic, difficulty, reply) ==
    LET dictionary_context == get_all_vocabulary_context(dict)
    IN IF dictionary_context.raised THEN Outcome(dictionary_context, <<>>)
       ELSE nova_generate_lesson(topic, LanguageName, difficulty,
                                 dictionary_context.value, reply)

\* variant: the notes are those of the classroom section
CulturalSource_Classroom(phr) == get_classroom_phrases(phr).value

\* the phrases whose notes explain_culture reads
CulturalSource(phr) == get_cultural_expressions(phr).value

NoteLine(expr) ==
    <<"- ">> \o Get(expr, "spanish", <<>>) \o <<": ">> \o Get(expr, "cultural_note", <<>>)

CulturalNotes(phr) ==
    LET cultural_expressions == CulturalSource(phr)
        noted == SelectSeq(cultural_expressions,
                           LAMBDA expr : TruthyText(Get(expr, "cultural_note", <<>>)))
    IN Join([i \in 1..Len(noted) |-> NoteLine(noted[i])], NL)

explain_culture(phr, text, reply) ==
    explain_cultural_context(text, LanguageName, CulturalNotes(phr), reply)

(***************************************************************************)
(* Speech to text (src/app/nova_sonic.py) and the translation tab of the   *)
(* page (src/app/main.py).  A recording is what the recorder widget hands  *)
(* over: nothing, or audio with a number of frames.                        *)
(***************************************************************************)
_wav_to_pcm(audio_bytes) == audio_bytes.frames

\* outcome is what the streaming transcription does with the audio
transcribe_audio(audio_bytes, outcome) ==
    IF _wav_to_pcm(audio_bytes) = 0 THEN Returns(<<>>) ELSE outcome

\* what is sent to the speech endpoint, in the order it is sent
StartEvent(sample_rate) == [kind |-> "start", media_sample_rate_hz |-> sample_rate]
AudioEvent(audio_chunk) == [kind |-> "audio", audio_chunk |-> audio_chunk]
EndEvent == [kind |-> "end"]
HandleEvents == [kind |-> "events"]

\* variant: each chunk stops one byte early
Slice_OneShort(bytes, from, to) ==
    SubSeq(bytes, from + 1, IF to - 1 < Len(bytes) THEN to - 1 ELSE Len(bytes))

\* bytes[from : to]
Slice(bytes, from, to) ==
    SubSeq(bytes, from + 1, IF to < Len(bytes) THEN to ELSE Len(bytes))

RECURSIVE SendChunks(_, _, _)
\* the loop over range(i, len(pcm_bytes), chunk_size), from offset i on
SendChunks(pcm_bytes, i, chunk_size) ==
    IF i >= Len(pcm_bytes) THEN <<>>
    ELSE << AudioEvent(Slice(pcm_bytes, i, i + chunk_size)) >>
             \o SendChunks(pcm_bytes, i + chunk_size, chunk_size)

\* answer is what the endpoint does: refuse the stream, or deliver final transcripts
_transcribe_streaming(pcm_bytes, sample_rate, answer) ==
    IF answer.raised THEN Outcome(answer, << StartEvent(sample_rate) >>)
    ELSE LET chunk_size == sample_rate * 2
         IN Outcome(Returns(Join(answer.value, " ")),
                    << StartEvent(sample_rate) >>
                        \o SendChunks(pcm_bytes, 0, chunk_size)
                        \o << EndEvent, HandleEvents >>)

\* transcribe_audio on the PCM data and sample rate that _wav_to_pcm extracted
transcribe_pcm(pcm_bytes, sample_rate, answer) ==
    IF ~TruthyText(pcm_bytes) THEN Outcome(Returns(<<>>), <<>>)
    ELSE _transcribe_streaming(pcm_bytes, sample_rate, answer)

\* variant: only RuntimeError is caught around the transcription
Caught_RuntimeErrorOnly(error) == error = "RuntimeError"

\* except Exception
Caught(error) == error \in {"ClientError", "TimeoutError", "RuntimeError", "TypeError", "KeyError"}

FreshPage ==
    [pc |-> "voice", speech |-> "none", voice_text |-> <<>>, notice |-> "none",
     input_text |-> <<>>, clicked |-> FALSE, direction |-> "to_indigenous",
     output |-> <<>>, panel |-> <<>>, error |-> "none"]

\* the voice section: voice_text = "" unless a transcription succeeds
voice_input(pg, audio_bytes, outcome) ==
    IF ~audio_bytes.present THEN [pg EXCEPT !.pc = "text"]
    ELSE LET transcript == transcribe_audio(audio_bytes, outcome)
         IN IF ~transcript.raised
            THEN [pg EXCEPT !.pc = "text", !.speech = "answered",
                            !.voice_text = transcript.value, !.notice = "success"]
            ELSE IF Caught(transcript.value[1])
            THEN [pg EXCEPT !.pc = "text", !.speech = transcript.value[1],
                            !.notice = "warning"]
            ELSE [pg EXCEPT !.pc = "crashed", !.speech = transcript.value[1]]

\* the keyword parameters a translator method declares besides self
TranslatorSignature(method) ==
    CASE method = "translate_to_indigenous" -> {"spanish_text"}
      [] method = "translate_to_spanish" -> {"indigenous_text"}

\* a call binds when every keyword it passes is a declared parameter
Accepts(method, keywords) == keywords \subseteq TranslatorSignature(method)

\* the call of the translate handler for the chosen direction
handler_call(dict, gram, phr, direction, input_text, reply) ==
    IF direction = "to_indigenous"
    THEN IF Accepts("translate_to_indigenous", {"source_lang_override"})
         THEN translate_to_indigenous(dict, gram, phr, input_text, reply)
         ELSE Outcome(Raises("TypeError"), <<>>)
    ELSE IF Accepts("translate_to_spanish", {"target_lang_override"})
         THEN translate_to_spanish(dict, gram, input_text, reply)
         ELSE Outcome(Raises("TypeError"), <<>>)

\* the translate handler: runs when the button is pressed and the text is not empty
translate_click(pg, dict, gram, phr, clicked, direction, reply) ==
    IF ~(clicked /\ TruthyText(pg.input_text))
    THEN [page |-> [pg EXCEPT !.pc = "end", !.clicked = clicked, !.direction = direction],
          requests |-> <<>>]
    ELSE LET result == handler_call(dict, gram, phr, direction, pg.input_text, reply)
             matches == IF result.ret.raised THEN <<>>
                        ELSE Get(result.ret.value, "dictionary_matches", <<>>)
         IN [page |->
                IF result.ret.raised
                THEN [pg EXCEPT !.pc = "end", !.clicked = clicked, !.direction = direction,
                                !.error = result.ret.value[1]]
                ELSE [pg EXCEPT !.pc = "end", !.clicked = clicked, !.direction = direction,
                                !.output = result.ret.value.translation,
                                !.panel = IF ~LooksEmpty(matches) THEN matches ELSE <<>>],
             requests |-> result.requests]

(***************************************************************************)
(* Input data                                                              *)
(***************************************************************************)
SeqsUpTo(S, n) == UNION {[1..k -> S] : k \in 0..n}

CategoryKeys == {"familia", "numeros"}
UnknownKey == "invalid_category"

NameOf(key) == IF key = "familia" THEN "Familia" ELSE "Números"

EntryPool ==
    { [awajun |-> <<"du", "kug">>, spanish |-> <<"ma", "dre">>],
      [awajun |-> <<"du", "kug">>, spanish |-> <<"Ma", "dre">>, context |-> <<>>],
      [awajun |-> <<"Ma">>, spanish |-> <<"mi">>, context |-> <<"nota">>] }

Queries ==
    { <<"ma">>, <<"Ma", "dre">>, <<"mi">>, <<"x">>, <<>> }

\* queries of the phrase book: one more that differs from the stored text by case
PhraseQueries == Queries \cup { <<"buenos">> }

KeyOrders ==
    {ks \in SeqsUpTo(CategoryKeys, Cardinality(CategoryKeys)) :
        \A i, j \in 1..Len(ks) : ks[i] = ks[j] => i = j}

EntryLists == SeqsUpTo(EntryPool, MaxEntries)

\* dictionary.json documents that follow the documented shape
Dictionaries ==
    UNION { { [categories |->
                 [i \in 1..Len(ks) |->
                     [key |-> ks[i],
                      value |-> [name_es |-> NameOf(ks[i]), entries |-> es[i]]]]]
              : es \in [1..Len(ks) -> EntryLists] }
            : ks \in KeyOrders }

GrammarKeys == {"word_order", "verb_conjugation", "suffixes", "negation", "phonology"}

WordOrderValues ==
    { EmptyDoc,
      [examples |-> <<>>],
      [basic |-> <<"SOV">>, description |-> <<"sujeto objeto verbo">>],
      [basic |-> <<"SOV">>, description |-> <<"sujeto objeto verbo">>,
       examples |-> << [awajun |-> <<"du", "kug">>, spanish_natural |-> <<"ma", "dre">>] >>] }

ConjugationValues ==
    { EmptyDoc,
      [present_tense_suffixes |-> <<>>],
      [description |-> <<"sufijos de persona">>],
      [description |-> <<"sufijos de persona">>,
       present_tense_suffixes |-> << [key |-> "-jai", value |-> <<"yo">>] >>] }

SuffixesValues ==
    { EmptyDoc,
      [common_suffixes |-> <<>>],
      [common_suffixes |->
          << [suffix |-> "-num", meaning |-> <<"en">>, example |-> <<"jeganum">>] >>] }

NegationValues ==
    { EmptyDoc,
      [examples |-> <<>>],
      [description |-> <<"sufijo -tsu">>] }

\* grammar.json documents: every section is optional
Grammars ==
    { [k \in D |-> g[k]] :
        D \in SUBSET GrammarKeys,
        g \in { [word_order |-> w, verb_conjugation |-> c, suffixes |-> s,
                 negation |-> n, phonology |-> [vowels |-> <<"a", "e", "i", "u">>]]
                : w \in WordOrderValues, c \in ConjugationValues,
                  s \in SuffixesValues, n \in NegationValues } }

PhrasePool ==
    { [spanish |-> <<"Buenos", "días">>, awajun |-> <<"Pujamek">>,
       pronunciation_guide |-> <<"pu-ja-mek">>, cultural_note |-> <<"saludo">>],
      [spanish |-> <<"ma", "dre">>, awajun |-> <<"du", "kug">>],
      [spanish |-> <<"a", "gua">>, awajun |-> <<"Yu", "mi">>,
       pronunciation_guide |-> <<>>] }

PhraseLists == SeqsUpTo(PhrasePool, MaxPhrases)

\* phrases.json documents: each of the three sections is optional
PhraseBooks ==
    { [k \in D |-> b[k]] :
        D \in SUBSET {"classroom_phrases", "daily_interaction", "cultural_expressions"},
        b \in [classroom_phrases : PhraseLists, daily_interaction : PhraseLists,
               cultural_expressions : PhraseLists] }

OneFile(name, content) == [f \in {name} |-> content]

\* the data directories: no file at all, or one document populated
FileSystems ==
    {EmptyDoc}
    \cup {OneFile("dictionary.json", d) : d \in Dictionaries \cup {EmptyDoc}}
    \cup {OneFile("grammar.json", g) : g \in Grammars}
    \cup {OneFile("phrases.json", b) : b \in PhraseBooks}

(***************************************************************************)
(* Input data of the assistant: documents that the translator combines,    *)
(* among them texts that contain the words of the no-results messages,     *)
(* and the answers of the two external services.                           *)
(***************************************************************************)
AssistantDictionaries ==
    { EmptyDoc,
      [categories |->
          << [key |-> "familia",
              value |-> [name_es |-> "Familia",
                         entries |-> << [awajun |-> <<"du", "kug">>,
                                         spanish |-> <<"ma", "dre">>] >>]] >>],
      [categories |->
          << [key |-> "aula",
              value |-> [name_es |-> "Aula",
                         entries |-> << [awajun |-> <<"papi">>, spanish |-> <<"libros">>,
                                         context |-> <<"No se encontraron", " equivalentes">>] >>]] >>] }

AssistantGrammars ==
    { EmptyDoc,
      [negation |-> [description |-> <<"sufijo -tsu">>]],
      [phonology |-> [vowels |-> <<"a", "e", "i", "u">>]] }

Greeting ==
    [spanish |-> <<"Buenos", "días">>, awajun |-> <<"Pujamek">>,
     pronunciation_guide |-> <<"pu-ja-mek">>, cultural_note |-> <<"saludo">>]

Mother == [spanish |-> <<"ma", "dre">>, awajun |-> <<"du", "kug">>]

MissingBooks ==
    [spanish |-> <<"No se encontraron", " los ", "libros">>,
     awajun |-> <<"papi", "atsawai">>, cultural_note |-> <<>>]

AssistantPhraseLists == { <<>>, <<Greeting>>, <<MissingBooks>>, <<Mother, Greeting>> }

AssistantPhraseBooks ==
    [classroom_phrases : AssistantPhraseLists, daily_interaction : AssistantPhraseLists,
     cultural_expressions : AssistantPhraseLists]

AssistantFileSystems ==
    {EmptyDoc}
    \cup { [f \in {"dictionary.json", "grammar.json", "phrases.json"} |->
               CASE f = "dictionary.json" -> d
                 [] f = "grammar.json" -> g
                 [] f = "phrases.json" -> b]
           : d \in AssistantDictionaries, g \in AssistantGrammars, b \in AssistantPhraseBooks }

Texts == { <<"ma", "dre">>, <<"libros">>, <<"x">> }

Topics == { <<"la familia">> }
Difficulties == {"básico", "avanzado"}

\* the generation endpoint answers with a text, refuses, or answers without a text
EndpointReplies == { Returns(<<"respuesta">>), Raises("ClientError"), Raises("KeyError") }

Recordings ==
    { [present |-> FALSE, frames |-> 0], [present |-> TRUE, frames |-> 0],
      [present |-> TRUE, frames |-> 1] }

SpeechOutcomes ==
    { Returns(<<"ma", "dre">>), Returns(<<>>), Raises("ClientError"),
      Raises("TimeoutError"), Raises("RuntimeError") }

Directions == {"to_indigenous", "from_indigenous"}

\* PCM data, sample rates (small stand-ins for 16000) and answers of the speech endpoint
PcmInputs == SeqsUpTo({0, 1}, MaxBytes)

SampleRates == {1, 2}

StreamAnswers ==
    { Returns(<<>>), Returns(<< <<"ma">>, <<"dre">> >>), Raises("ClientError") }

(***************************************************************************)
(* State machine                                                           *)
(***************************************************************************)
\* KnowledgeBase.__init__
Init ==
    \E files \in FileSystems :
        /\ data_files = DOMAIN files
        /\ dictionary = _load_json(files, "dictionary.json")
        /\ grammar = _load_json(files, "grammar.json")
        /\ phrases = _load_json(files, "phrases.json")
        /\ op = "none"
        /\ args = <<>>
        /\ ret = Returns(<<>>)
        /\ examined = <<>>
        /\ requests = <<>>
        /\ page = FreshPage

Loaded == <<data_files, dictionary, grammar, phrases>>

\* no call's result is outstanding and no run of the page is under way
Idle == op = "none" /\ page = FreshPage

MaxResultsArgs == (1..MaxResults) \cup {DefaultMaxResults}

SearchDictionary ==
    \E query \in Queries, max_results \in MaxResultsArgs :
        /\ Idle
        /\ op' = "search_dictionary"
        /\ args' = <<query, max_results>>
        /\ ret' = search_dictionary(dictionary, query, max_results)
        /\ examined' = SearchScan(dictionary, query, max_results).examined
        /\ UNCHANGED <<Loaded, requests, page>>

GetCategoryVocabulary ==
    \E category \in CategoryKeys \cup {UnknownKey} :
        /\ Idle
        /\ op' = "get_category_vocabulary"
        /\ args' = <<category>>
        /\ ret' = get_category_vocabulary(dictionary, category)
        /\ examined' = <<>>
        /\ UNCHANGED <<Loaded, requests, page>>

GetAllVocabularyContext ==
    /\ Idle
    /\ op' = "get_all_vocabulary_context"
    /\ args' = <<>>
    /\ ret' = get_all_vocabulary_context(dictionary)
    /\ examined' = <<>>
    /\ UNCHANGED <<Loaded, requests, page>>

GetGrammarContext ==
    /\ Idle
    /\ op' = "get_grammar_context"
    /\ args' = <<>>
    /\ ret' = get_grammar_context(grammar)
    /\ examined' = <<>>
    /\ UNCHANGED <<Loaded, requests, page>>

GetMatchingPhrases ==
    \E query \in PhraseQueries :
        /\ Idle
        /\ op' = "get_matching_phrases"
        /\ args' = <<query>>
        /\ ret' = get_matching_phrases(phrases, query)
        /\ examined' = <<>>
        /\ UNCHANGED <<Loaded, requests, page>>

GetClassroomPhrases ==
    /\ Idle
    /\ op' = "get_classroom_phrases"
    /\ args' = <<>>
    /\ ret' = get_classroom_phrases(phrases)
    /\ examined' = <<>>
    /\ UNCHANGED <<Loaded, requests, page>>

\* variant: the accessor hands its list over and keeps none
GetCulturalExpressions_Draining ==
    /\ Idle
    /\ op' = "get_cultural_expressions"
    /\ args' = <<>>
    /\ ret' = get_cultural_expressions(phrases)
    /\ examined' = <<>>
    /\ phrases' = [k \in DOMAIN phrases |->
                      IF k = "cultural_expressions" THEN <<>> ELSE phrases[k]]
    /\ UNCHANGED <<data_files, dictionary, grammar, requests, page>>

GetCulturalExpressions ==
    /\ Idle
    /\ op' = "get_cultural_expressions"
    /\ args' = <<>>
    /\ ret' = get_cultural_expressions(phrases)
    /\ examined' = <<>>
    /\ UNCHANGED <<Loaded, requests, page>>

GetAvailableCategories ==
    /\ Idle
    /\ op' = "get_available_categories"
    /\ args' = <<>>
    /\ ret' = get_available_categories(dictionary)
    /\ examined' = <<>>
    /\ UNCHANGED <<Loaded, requests, page>>

\* the caller consumes the returned value; the instance is ready for the next call
TakeResult ==
    /\ op # "none"
    /\ op' = "none"
    /\ args' = <<>>
    /\ ret' = Returns(<<>>)
    /\ examined' = <<>>
    /\ requests' = <<>>
    /\ UNCHANGED <<Loaded, page>>

Next ==
    \/ SearchDictionary
    \/ GetCategoryVocabulary
    \/ GetAllVocabularyContext
    \/ GetGrammarContext
    \/ GetMatchingPhrases
    \/ GetClassroomPhrases
    \/ GetCulturalExpressions
    \/ GetAvailableCategories
    \/ TakeResult

Spec == Init /\ [][Next]_vars

(***************************************************************************)
(* The assistant: the translator's operations called on a loaded instance  *)
(* and the translation tab run from top to bottom                          *)
(***************************************************************************)
InitAssistant ==
    \E files \in AssistantFileSystems :
        /\ data_files = DOMAIN files
        /\ dictionary = _load_json(files, "dictionary.json")
        /\ grammar = _load_json(files, "grammar.json")
        /\ phrases = _load_json(files, "phrases.json")
        /\ op = "none"
        /\ args = <<>>
        /\ ret = Returns(<<>>)
        /\ examined = <<>>
        /\ requests = <<>>
        /\ page = FreshPage

TranslateToIndigenous ==
    \E spanish_text \in Texts, reply \in EndpointReplies :
        /\ Idle
        /\ op' = "translate_to_indigenous"
        /\ args' = <<spanish_text>>
        /\ ret' = translate_to_indigenous(dictionary, grammar, phrases, spanish_text, reply).ret
        /\ requests' = translate_to_indigenous(dictionary, grammar, phrases,
                                               spanish_text, reply).requests
        /\ examined' = <<>>
        /\ UNCHANGED <<Loaded, page>>

TranslateToSpanish ==
    \E indigenous_text \in Texts, reply \in EndpointReplies :
        /\ Idle
        /\ op' = "translate_to_spanish"
        /\ args' = <<indigenous_text>>
        /\ ret' = translate_to_spanish(dictionary, grammar, indigenous_text, reply).ret
        /\ requests' = translate_to_spanish(dictionary, grammar, indigenous_text, reply).requests
        /\ examined' = <<>>
        /\ UNCHANGED <<Loaded, page>>

GenerateLesson ==
    \E topic \in Topics, difficulty \in Difficulties, reply \in EndpointReplies :
        /\ Idle
        /\ op' = "generate_lesson"
        /\ args' = <<topic, difficulty>>
        /\ ret' = generate_lesson(dictionary, topic, difficulty, reply).ret
        /\ requests' = generate_lesson(dictionary, topic, difficulty, reply).requests
        /\ examined' = <<>>
        /\ UNCHANGED <<Loaded, page>>

ExplainCulture ==
    \E text \in Texts, reply \in EndpointReplies :
        /\ Idle
        /\ op' = "explain_culture"
        /\ args' = <<text>>
        /\ ret' = explain_culture(phrases, text, reply).ret
        /\ requests' = explain_culture(phrases, text, reply).requests
        /\ examined' = <<>>
        /\ UNCHANGED <<Loaded, page>>

\* the voice section of the tab
VoiceSection ==
    \E audio_bytes \in Recordings, outcome \in SpeechOutcomes :
        /\ op = "none"
        /\ page.pc = "voice"
        /\ page' = voice_input(page, audio_bytes, outcome)
        /\ UNCHANGED <<Loaded, op, args, ret, examined, requests>>

\* the text area: it holds the transcript unless the user types
TextSection ==
    \E typed \in Texts \cup {page.voice_text} :
        /\ page.pc = "text"
        /\ page' = [page EXCEPT !.pc = "translate", !.input_text = typed]
        /\ UNCHANGED <<Loaded, op, args, ret, examined, requests>>

\* the translate button and its handler
TranslateSection ==
    \E clicked \in BOOLEAN, direction \in Directions, reply \in EndpointReplies :
        /\ page.pc = "translate"
        /\ page' = translate_click(page, dictionary, grammar, phrases,
                                   clicked, direction, reply).page
        /\ requests' = translate_click(page, dictionary, grammar, phrases,
                                       clicked, direction, reply).requests
        /\ UNCHANGED <<Loaded, op, args, ret, examined>>

\* the next interaction runs the script again from the top
Rerun ==
    /\ page.pc = "end"
    /\ page' = FreshPage
    /\ requests' = <<>>
    /\ UNCHANGED <<Loaded, op, args, ret, examined>>

NextAssistant ==
    \/ TranslateToIndigenous
    \/ TranslateToSpanish
    \/ GenerateLesson
    \/ ExplainCulture
    \/ GetMatchingPhrases
    \/ GetGrammarContext
    \/ TakeResult
    \/ VoiceSection
    \/ TextSection
    \/ TranslateSection
    \/ Rerun

SpecAssistant == InitAssistant /\ [][NextAssistant]_vars

(***************************************************************************)
(* Speech to text on its own: transcribe_audio called with audio whose     *)
(* PCM data and sample rate are given                                      *)
(***************************************************************************)
InitSpeech ==
    /\ data_files = {}
    /\ dictionary = EmptyDoc
    /\ grammar = EmptyDoc
    /\ phrases = EmptyDoc
    /\ op = "none"
    /\ args = <<>>
    /\ ret = Returns(<<>>)
    /\ examined = <<>>
    /\ requests = <<>>
    /\ page = FreshPage

TranscribeAudio ==
    \E pcm_bytes \in PcmInputs, sample_rate \in SampleRates, answer \in StreamAnswers :
        /\ Idle
        /\ op' = "transcribe_audio"
        /\ args' = <<pcm_bytes, sample_rate>>
        /\ ret' = transcribe_pcm(pcm_bytes, sample_rate, answer).ret
        /\ requests' = transcribe_pcm(pcm_bytes, sample_rate, answer).requests
        /\ examined' = <<>>
        /\ UNCHANGED <<Loaded, page>>

NextSpeech ==
    \/ TranscribeAudio
    \/ TakeResult

SpecSpeech == InitSpeech /\ [][NextSpeech]_vars

(***************************************************************************)
(* The knowledge base over loosely typed documents: no schema is checked   *)
(* at load time, so an entry or phrase may lack a term and a category      *)
(* record may lack its name, its entries, or everything.                   *)
(***************************************************************************)
SpanishOnly == [spanish |-> <<"ma", "dre">>]
AwajunOnly == [awajun |-> <<"du", "kug">>]
BothTerms == [awajun |-> <<"apa">>, spanish |-> <<"mi">>]

LooseEntryLists ==
    { <<>>, <<SpanishOnly>>, <<AwajunOnly>>, <<BothTerms>>, <<BothTerms, SpanishOnly>> }

LooseCategoryRecords(key) ==
    { EmptyDoc, [name_es |-> NameOf(key)] }
    \cup { [entries |-> es] : es \in LooseEntryLists }
    \cup { [name_es |-> NameOf(key), entries |-> es] : es \in LooseEntryLists }

LooseDictionaries ==
    { EmptyDoc, [categories |-> <<>>] }
    \cup { [categories |-> << [key |-> "familia", value |-> f] >>]
           : f \in LooseCategoryRecords("familia") }
    \cup { [categories |-> << [key |-> "familia", value |-> f],
                              [key |-> "numeros", value |-> n] >>]
           : f \in LooseCategoryRecords("familia"), n \in LooseCategoryRecords("numeros") }

LoosePhraseBooks ==
    [classroom_phrases : LooseEntryLists, daily_interaction : LooseEntryLists,
     cultural_expressions : LooseEntryLists]

LooseFileSystems ==
    { OneFile("dictionary.json", d) : d \in LooseDictionaries }
    \cup { OneFile("phrases.json", b) : b \in LoosePhraseBooks }

InitLoose ==
    \E files \in LooseFileSystems :
        /\ data_files = DOMAIN files
        /\ dictionary = _load_json(files, "dictionary.json")
        /\ grammar = _load_json(files, "grammar.json")
        /\ phrases = _load_json(files, "phrases.json")
        /\ op = "none"
        /\ args = <<>>
        /\ ret = Returns(<<>>)
        /\ examined = <<>>
        /\ requests = <<>>
        /\ page = FreshPage

NextLoose ==
    \/ SearchDictionary
    \/ GetCategoryVocabulary
    \/ GetAvailableCategories
    \/ GetMatchingPhrases
    \/ TakeResult

SpecLoose == InitLoose /\ [][NextLoose]_vars

(***************************************************************************)
(* Vocabulary of the properties                                            *)
(***************************************************************************)
RECURSIVE SplitLines(_)
\* text.split("\n")
SplitLines(text) ==
    IF \A i \in 1..Len(text) : text[i] # NL THEN <<text>>
    ELSE LET i == CHOOSE k \in 1..Len(text) :
                      text[k] = NL /\ \A j \in 1..(k - 1) : text[j] # NL
         IN <<SubSeq(text, 1, i - 1)>> \o SplitLines(SubSeq(text, i + 1, Len(text)))

IsPrefix(s, t) == Len(s) <= Len(t) /\ SubSeq(t, 1, Len(s)) = s

RECURSIVE IsSubsequence(_, _)
\* s is obtained from t by deleting elements
IsSubsequence(s, t) ==
    IF Len(s) = 0 THEN TRUE
    ELSE IF Len(t) = 0 THEN FALSE
    ELSE IF Head(s) = Head(t) THEN IsSubsequence(Tail(s), Tail(t))
    ELSE IsSubsequence(s, Tail(t))

Cats == Categories(dictionary)
EntriesOf(c) == Cats[c].value.entries
EntryAt(p) == EntriesOf(p[1])[p[2]]

\* positions <<category index, entry index>> of the loaded dictionary, and
\* the order in which categories.items() and the entry lists are iterated
Positions == UNION { {<<c, i>> : i \in 1..Len(EntriesOf(c))} : c \in 1..Len(Cats) }
Before(p, q) == p[1] < q[1] \/ (p[1] = q[1] /\ p[2] < q[2])

\* query is a case-insensitive substring of the entry's Spanish or Awajun term
TermIn(e, query) ==
    \/ Contains(LowerText(e.spanish), LowerText(query))
    \/ Contains(LowerText(e.awajun), LowerText(query))

MatchPositions(query) == {p \in Positions : TermIn(EntryAt(p), query)}
MatchesBefore(p, query) == {q \in MatchPositions(query) : Before(q, p)}

\* "term = translation (context)"
FormattedLine(e) ==
    <<"  ">> \o e.awajun \o <<" = ">> \o e.spanish
        \o (IF "context" \in DOMAIN e /\ e.context # <<>>
            THEN <<" (">> \o e.context \o <<")">> ELSE <<>>)

RECURSIVE FlatEntries(_)
\* every entry of the dictionary, in iteration order, from category c on
FlatEntries(c) ==
    IF c > Len(Cats) THEN <<>> ELSE EntriesOf(c) \o FlatEntries(c + 1)

AllMatches(query) ==
    LET Hit(e) == TermIn(e, query) IN SelectSeq(FlatEntries(1), Hit)

Searched == op = "search_dictionary"
SearchQuery == args[1]
SearchMax == args[2]
Found == Searched /\ ~ret.raised /\ ret.value # NoEntriesSentinel
ResultLines == SplitLines(ret.value)

KeyIndex(key) == CHOOSE c \in 1..Len(Cats) : Cats[c].key = key
ExaminedPositions == [j \in 1..Len(examined) |-> <<KeyIndex(examined[j][1]), examined[j][2]>>]

(***************************************************************************)
(* C1 (as stated): whenever the query is a case-insensitive substring of   *)
(* an entry's Spanish or Awajun term, the block returned by                *)
(* search_dictionary contains that entry's formatted line, for every       *)
(* max_results >= 1.                                                       *)
(***************************************************************************)
C1_EveryMatchListed ==
    Searched =>
        \A p \in MatchPositions(SearchQuery) :
            /\ ~ret.raised
            /\ \E j \in 1..Len(ResultLines) : ResultLines[j] = FormattedLine(EntryAt(p))

(***************************************************************************)
(* C1 (amended): the block contains the formatted line of every matching   *)
(* entry that is preceded, in iteration order, by fewer than max_results   *)
(* matching entries.                                                       *)
(***************************************************************************)
C1_MatchWithinLimitListed ==
    Searched =>
        \A p \in MatchPositions(SearchQuery) :
            Cardinality(MatchesBefore(p, SearchQuery)) < SearchMax =>
                /\ ~ret.raised
                /\ \E j \in 1..Len(ResultLines) :
                       ResultLines[j] = FormattedLine(EntryAt(p))

C1_Witness ==
    /\ Searched
    /\ SearchMax = 2
    /\ \E p \in MatchPositions(SearchQuery) :
           /\ Cardinality(MatchesBefore(p, SearchQuery)) = 1
           /\ \E j \in 1..Len(ResultLines) : ResultLines[j] = FormattedLine(EntryAt(p))

(***************************************************************************)
(* C2: search_dictionary stops once max_results matches are collected:     *)
(* the block lists at most max_results entries and no entry is examined    *)
(* after the max_results-th match.                                         *)
(***************************************************************************)
C2_StopsAtMaxResults ==
    Searched =>
        /\ ~ret.raised
        /\ Found => Len(ResultLines) <= SearchMax
        /\ \A j \in 1..Len(examined) :
               Cardinality({k \in 1..(j - 1) :
                               TermIn(EntryAt(ExaminedPositions[k]), SearchQuery)})
                   < SearchMax

(***************************************************************************)
(* C3: with the default max_results, search_dictionary returns the         *)
(* no-results sentinel exactly when no entry of any category contains the  *)
(* query case-insensitively in either term, and it does not raise.         *)
(***************************************************************************)
C3_SentinelIffNoMatch ==
    (Searched /\ SearchMax = DefaultMaxResults) =>
        /\ ~ret.raised
        /\ (ret.value = NoEntriesSentinel) <=> (MatchPositions(SearchQuery) = {})

C3_Witness ==
    /\ Searched
    /\ SearchMax = DefaultMaxResults
    /\ Positions # {}
    /\ MatchPositions(SearchQuery) = {}
    /\ ret.value = NoEntriesSentinel

(***************************************************************************)
(* C4: every listed match is one line "awajun = spanish", both terms as    *)
(* stored, followed by " (context)" exactly when the entry has a non-empty *)
(* context note; a query that matches some entry always yields the line    *)
(* of the first matching entry, hence its translation.                     *)
(***************************************************************************)
ListedEntries ==
    LET Hit(p) == TermIn(EntryAt(p), SearchQuery)
        hits == SelectSeq(ExaminedPositions, Hit)
    IN [j \in 1..Len(hits) |-> EntryAt(hits[j])]

LineShowsEntry(line, e) ==
    LET terms == <<"  ">> \o e.awajun \o <<" = ">> \o e.spanish
        note == IF "context" \in DOMAIN e THEN e.context ELSE <<>>
        rest == SubSeq(line, Len(terms) + 1, Len(line))
    IN /\ IsPrefix(terms, line)
       /\ Contains(line, e.awajun) /\ Contains(line, e.spanish)
       /\ IF note # <<>> THEN rest = <<" (">> \o note \o <<")">> ELSE rest = <<>>

C4_LineShowsBothTerms ==
    Searched =>
        /\ MatchPositions(SearchQuery) # {} => Found
        /\ Found =>
              /\ Len(ResultLines) = Len(ListedEntries)
              /\ \A j \in 1..Len(ResultLines) :
                     LineShowsEntry(ResultLines[j], ListedEntries[j])
              /\ LineShowsEntry(ResultLines[1], AllMatches(SearchQuery)[1])

C4_Witness ==
    /\ Found
    /\ \E j \in 1..Len(ResultLines) :
           /\ "context" \in DOMAIN ListedEntries[j]
           /\ ListedEntries[j].context = <<>>
           /\ ~Contains(LowerText(ListedEntries[j].awajun), LowerText(SearchQuery))
    /\ \E j \in 1..Len(ResultLines) :
           /\ "context" \in DOMAIN ListedEntries[j]
           /\ ListedEntries[j].context # <<>>
           /\ ~Contains(LowerText(ListedEntries[j].spanish), LowerText(SearchQuery))

(***************************************************************************)
(* C5: the lines are the matching entries in category-iteration order and, *)
(* within a category, stored order: they are an order-preserving selection *)
(* of all matches, the first match is the first line, and when the matches *)
(* fit within max_results every one of them, duplicates included, is       *)
(* listed in that order.                                                   *)
(***************************************************************************)
AllMatchLines(query) ==
    LET m == AllMatches(query) IN [j \in 1..Len(m) |-> FormattedLine(m[j])]

C5_IterationOrder ==
    Found =>
        LET all == AllMatchLines(SearchQuery)
        IN /\ IsSubsequence(ResultLines, all)
           /\ ResultLines[1] = all[1]
           /\ Len(all) <= SearchMax => ResultLines = all

C5_Witness ==
    /\ Found
    /\ Len(Cats) = 2
    /\ Len(ResultLines) = 3
    /\ ResultLines[1] = ResultLines[3]
    /\ ResultLines[1] # ResultLines[2]

(***************************************************************************)
(* C6: for a key that is not a category of the dictionary,                 *)
(* get_category_vocabulary returns, without raising, a message that        *)
(* contains "no encontrada" and ends with every known category key, in     *)
(* order, joined by ", " (nothing when the dictionary has no category).    *)
(***************************************************************************)
AskedCategory == op = "get_category_vocabulary"
KnownCategory(key) == \E c \in 1..Len(Cats) : Cats[c].key = key

KnownKeysJoined ==
    [i \in 1..(2 * Len(Cats) - 1) |->
        IF i % 2 = 1 THEN Cats[(i + 1) \div 2].key ELSE ", "]

C6_UnknownCategoryMessage ==
    (AskedCategory /\ ~KnownCategory(args[1])) =>
        LET n == Len(KnownKeysJoined)
            len == Len(ret.value)
        IN /\ ~ret.raised
           /\ Contains(ret.value, <<"no encontrada">>)
           /\ len > n
           /\ ret.value[len - n] = ". Disponibles: "
           /\ SubSeq(ret.value, len - n + 1, len) = KnownKeysJoined

C6_Witness ==
    /\ AskedCategory
    /\ ~KnownCategory(args[1])
    /\ Len(Cats) = 2
    /\ Contains(ret.value, <<"familia", ", ", "numeros">>)

(***************************************************************************)
(* C7: for a known category, get_category_vocabulary returns a header      *)
(* line followed by exactly one line per entry of that category, in stored *)
(* order, each containing the entry's Awajun and Spanish terms; no line    *)
(* shows an entry that only another category holds.                        *)
(***************************************************************************)
TermsOf(e) == <<"  ">> \o e.awajun \o <<" = ">> \o e.spanish

C7_KnownCategoryBlock ==
    (AskedCategory /\ KnownCategory(args[1])) =>
        LET c == KeyIndex(args[1])
            es == EntriesOf(c)
            lines == ResultLines
        IN /\ ~ret.raised
           /\ Len(lines) = 1 + Len(es)
           /\ lines[1] = <<"## ", Cats[c].value.name_es>>
           /\ \A i \in 1..Len(es) :
                  /\ Contains(lines[i + 1], es[i].awajun)
                  /\ Contains(lines[i + 1], es[i].spanish)
                  /\ IsPrefix(TermsOf(es[i]), lines[i + 1])
           /\ \A p \in Positions :
                  (\A i \in 1..Len(es) : TermsOf(es[i]) # TermsOf(EntryAt(p))) =>
                      \A j \in 1..Len(lines) : ~IsPrefix(TermsOf(EntryAt(p)), lines[j])

C7_Witness ==
    /\ AskedCategory
    /\ KnownCategory(args[1])
    /\ Len(Cats) = 2
    /\ Len(ResultLines) = 3
    /\ ResultLines[2] # ResultLines[3]
    /\ \E p \in Positions :
           /\ p[1] # KeyIndex(args[1])
           /\ \A i \in 1..Len(EntriesOf(KeyIndex(args[1]))) :
                  TermsOf(EntriesOf(KeyIndex(args[1]))[i]) # TermsOf(EntryAt(p))

(***************************************************************************)
(* C8: every entry line that get_category_vocabulary shows for a known     *)
(* category appears (without its context note) in the output of            *)
(* get_all_vocabulary_context under that category's header, in the same    *)
(* order, and the section under the header holds as many lines as the      *)
(* category block has entries: nothing is cut.                             *)
(***************************************************************************)
\* the lines that follow the header line, up to the next empty line
SectionUnder(lines, header) ==
    LET h == CHOOSE k \in 1..Len(lines) : lines[k] = header
        stops == {k \in (h + 1)..Len(lines) : lines[k] = <<>>}
        end == IF stops = {} THEN Len(lines) + 1
               ELSE CHOOSE k \in stops : \A j \in stops : k <= j
    IN SubSeq(lines, h + 1, end - 1)

C8_FullContextSuperset ==
    op = "get_all_vocabulary_context" =>
        /\ ~ret.raised
        /\ \A c \in 1..Len(Cats) :
               LET shown == SplitLines(get_category_vocabulary(dictionary, Cats[c].key).value)
                   header == <<"[", Cats[c].value.name_es, "]">>
               IN /\ \E k \in 1..Len(ResultLines) : ResultLines[k] = header
                  /\ LET section == SectionUnder(ResultLines, header)
                     IN /\ Len(section) = Len(shown) - 1
                        /\ \A i \in 1..Len(section) :
                               /\ IsPrefix(section[i], shown[i + 1])
                               /\ section[i] = TermsOf(EntriesOf(c)[i])

C8_Witness ==
    /\ op = "get_all_vocabulary_context"
    /\ Len(Cats) = 2
    /\ Len(EntriesOf(1)) = 2
    /\ Len(EntriesOf(2)) = 2
    /\ EntriesOf(1) # EntriesOf(2)
    /\ \E i \in 1..2 : "context" \in DOMAIN EntriesOf(2)[i] /\ EntriesOf(2)[i].context # <<>>
    /\ Len(ResultLines) = 8

(***************************************************************************)
(* C9 (as stated): get_grammar_context omits a section exactly when its    *)
(* source data is absent or empty, and never renders a header with nothing *)
(* under it.                                                               *)
(***************************************************************************)
GrammarSections == {"word_order", "verb_conjugation", "suffixes", "negation"}

HeaderOf(section) ==
    CASE section = "word_order" -> "ORDEN DE PALABRAS: "
      [] section = "verb_conjugation" -> "CONJUGACIÓN: "
      [] section = "suffixes" -> "SUFIJOS COMUNES:"
      [] section = "negation" -> "NEGACIÓN: "

AskedGrammar == op = "get_grammar_context"

HeaderShown(section) == \E i \in 1..Len(ret.value) : ret.value[i] = HeaderOf(section)

\* the section's value is present and is a non-empty mapping
SectionPopulated(section) ==
    section \in DOMAIN grammar /\ DOMAIN grammar[section] # {}

\* the header's line carries text of the section, or an indented line follows it
HeaderHasBody(section) ==
    LET lines == ResultLines
        k == CHOOSE j \in 1..Len(lines) :
                 \E i \in 1..Len(lines[j]) : lines[j][i] = HeaderOf(section)
        own == SelectSeq(lines[k], LAMBDA t : t \notin {HeaderOf(section), " - "})
    IN \/ own # <<>>
       \/ k < Len(lines) /\ Len(lines[k + 1]) > 0 /\ lines[k + 1][1] \in {"  ", "  Ejemplo: "}

C9_NoEmptyHeader ==
    AskedGrammar =>
        /\ ~ret.raised
        /\ \A section \in GrammarSections :
               /\ HeaderShown(section) <=> SectionPopulated(section)
               /\ HeaderShown(section) => HeaderHasBody(section)

(***************************************************************************)
(* C9 (amended): get_grammar_context renders a section's header exactly    *)
(* when the section's value is present and a non-empty mapping; with only  *)
(* negation populated the output holds the negation line and no other      *)
(* section header.                                                         *)
(***************************************************************************)
C9_SectionOmittedIffEmpty ==
    AskedGrammar =>
        /\ ~ret.raised
        /\ \A section \in GrammarSections :
               HeaderShown(section) <=> SectionPopulated(section)
        /\ (\A section \in GrammarSections :
                SectionPopulated(section) <=> section = "negation")
               => /\ Contains(ret.value, <<"NEGACIÓN: ">> \o Get(grammar["negation"], "description", <<>>))
                  /\ \A section \in GrammarSections \ {"negation"} : ~HeaderShown(section)

C9_Witness ==
    /\ AskedGrammar
    /\ {"word_order", "suffixes", "negation"} \subseteq DOMAIN grammar
    /\ grammar["word_order"] = EmptyDoc
    /\ "description" \in DOMAIN grammar["negation"]
    /\ HeaderShown("negation")
    /\ ~HeaderShown("word_order")
    /\ HeaderShown("suffixes")
    /\ ~HeaderHasBody("suffixes")

(***************************************************************************)
(* C10 (as stated): after loading a directory with none of the three data  *)
(* files the documents are empty and every read operation returns its      *)
(* "no data" sentinel (a reserved, non-empty text; the empty list for the  *)
(* list accessors) rather than raising.                                    *)
(***************************************************************************)
ListOps == {"get_classroom_phrases", "get_cultural_expressions", "get_available_categories"}

NoFiles == data_files = {}

AllEmpty == dictionary = EmptyDoc /\ grammar = EmptyDoc /\ phrases = EmptyDoc

SentinelOrEmptyList ==
    CASE op = "search_dictionary" -> ret.value = NoEntriesSentinel
      [] op = "get_grammar_context" -> ret.value = NoGrammarSentinel
      [] op = "get_matching_phrases" -> ret.value = NoPhrasesSentinel
      [] op = "get_category_vocabulary" ->
             ret.value = <<"Categoría '", args[1], "' ", "no encontrada", ". Disponibles: ">>
      [] op \in ListOps -> ret.value = <<>>
      [] OTHER -> TRUE

C10_EveryReadReturnsSentinel ==
    NoFiles =>
        /\ AllEmpty
        /\ op # "none" =>
              /\ ~ret.raised
              /\ SentinelOrEmptyList
              /\ op \notin ListOps => ret.value # <<>>

(***************************************************************************)
(* C10 (amended): after loading a directory with none of the three data    *)
(* files the documents are empty and no read operation raises: search,     *)
(* grammar context and matching phrases return their sentinel, category    *)
(* vocabulary its not-found message with no category listed, the list      *)
(* accessors the empty list, and the full vocabulary context the empty     *)
(* string.                                                                 *)
(***************************************************************************)
C10_NoFilesNoFailure ==
    NoFiles =>
        /\ AllEmpty
        /\ op # "none" =>
              /\ ~ret.raised
              /\ SentinelOrEmptyList
              /\ op = "get_all_vocabulary_context" => ret.value = <<>>

C10_Witness ==
    /\ NoFiles
    /\ AllEmpty
    /\ op = "get_all_vocabulary_context"
    /\ ~ret.raised
    /\ ret.value = <<>>

(***************************************************************************)
(* C18: get_matching_phrases scans classroom_phrases, daily_interaction,   *)
(* cultural_expressions in that order and each section in stored order; a  *)
(* phrase matches when the query, compared without regard to case, is in   *)
(* its Spanish or its Awajún text; every matching phrase is listed (no     *)
(* cap) as a Spanish line, an Awajún line, a pronunciation line exactly    *)
(* when the phrase has a non-empty pronunciation guide, and an empty line. *)
(***************************************************************************)
PhraseSectionOrder == <<"classroom_phrases", "daily_interaction", "cultural_expressions">>

SectionOf(k) ==
    IF PhraseSectionOrder[k] \in DOMAIN phrases THEN phrases[PhraseSectionOrder[k]] ELSE <<>>

\* all phrases of the book, section by section
FlatPhrases == SectionOf(1) \o SectionOf(2) \o SectionOf(3)

PhraseTermIn(p, query) ==
    \E term \in {p.spanish, p.awajun} : Contains(LowerText(term), LowerText(query))

MatchingPhrasesOf(query) == SelectSeq(FlatPhrases, LAMBDA p : PhraseTermIn(p, query))

HasGuide(p) == "pronunciation_guide" \in DOMAIN p /\ p.pronunciation_guide # <<>>

PhraseBlock(p) ==
    << <<"  ES: ">> \o p.spanish, <<"  AW: ">> \o p.awajun >>
    \o (IF HasGuide(p) THEN << <<"  Pronunciación: ">> \o p.pronunciation_guide >> ELSE <<>>)
    \o << <<>> >>

RECURSIVE PhraseBlocks(_)
PhraseBlocks(ps) ==
    IF ps = <<>> THEN <<>> ELSE PhraseBlock(Head(ps)) \o PhraseBlocks(Tail(ps))

AskedPhrases == op = "get_matching_phrases"

GrammarOrder == <<"word_order", "verb_conjugation", "suffixes", "negation">>

\* the index of the output line that carries the section's header
HeaderLine(section) ==
    CHOOSE j \in 1..Len(ResultLines) :
        \E i \in 1..Len(ResultLines[j]) : ResultLines[j][i] = HeaderOf(section)

ExamplesOf(section, key) ==
    IF key \in DOMAIN grammar[section] THEN grammar[section][key] ELSE <<>>

C20_GrammarSectionOrder ==
    (AskedGrammar /\ grammar # EmptyDoc) =>
        /\ \A i, j \in 1..Len(GrammarOrder) :
               (i < j /\ HeaderShown(GrammarOrder[i]) /\ HeaderShown(GrammarOrder[j]))
                   => HeaderLine(GrammarOrder[i]) < HeaderLine(GrammarOrder[j])
        /\ HeaderShown("word_order") =>
               LET examples == ExamplesOf("word_order", "examples")
                   h == HeaderLine("word_order")
               IN /\ h = 1
                  /\ Len(ResultLines) >= h + Len(examples)
                  /\ \A e \in 1..Len(examples) :
                         ResultLines[h + e] =
                             <<"  Ejemplo: ">> \o examples[e].awajun \o <<" = ">>
                                 \o examples[e].spanish_natural
        /\ HeaderShown("verb_conjugation") =>
               LET table == ExamplesOf("verb_conjugation", "present_tense_suffixes")
                   h == HeaderLine("verb_conjugation")
               IN /\ Len(ResultLines) >= h + Len(table)
                  /\ \A r \in 1..Len(table) :
                         ResultLines[h + r] = <<"  ", table[r].key, ": ">> \o table[r].value

C20_Witness ==
    /\ AskedGrammar
    /\ \A section \in GrammarSections : HeaderShown(section)
    /\ "phonology" \in DOMAIN grammar
    /\ Len(ExamplesOf("word_order", "examples")) = 1
    /\ Len(ExamplesOf("verb_conjugation", "present_tense_suffixes")) = 1
    /\ HeaderLine("negation") = Len(ResultLines)

(***************************************************************************)
(* C17: every knowledge-base operation is read-only and repeatable: no     *)
(* step changes the loaded dictionary, grammar or phrases, and whenever a  *)
(* call's result is outstanding it is the result the same call with the    *)
(* same arguments returns on the instance as the call left it.             *)
(***************************************************************************)
KnowledgeBaseOps ==
    {"search_dictionary", "get_category_vocabulary", "get_all_vocabulary_context",
     "get_grammar_context", "get_matching_phrases", "get_classroom_phrases",
     "get_cultural_expressions", "get_available_categories"}

\* what the outstanding call returns when it is made again now
SameCallAgain ==
    CASE op = "search_dictionary" -> search_dictionary(dictionary, args[1], args[2])
      [] op = "get_category_vocabulary" -> get_category_vocabulary(dictionary, args[1])
      [] op = "get_all_vocabulary_context" -> get_all_vocabulary_context(dictionary)
      [] op = "get_grammar_context" -> get_grammar_context(grammar)
      [] op = "get_matching_phrases" -> get_matching_phrases(phrases, args[1])
      [] op = "get_classroom_phrases" -> get_classroom_phrases(phrases)
      [] op = "get_cultural_expressions" -> get_cultural_expressions(phrases)
      [] op = "get_available_categories" -> get_available_categories(dictionary)

SentinelWords == <<"No se encontraron">>

C11_PhraseSentinelDistinguishable ==
    AskedPhrases =>
        /\ ~ret.raised
        /\ (ret.value = <<"No se encontraron", " frases relevantes.">>)
               <=> (MatchingPhrasesOf(args[1]) = <<>>)
        /\ Contains(ret.value, SentinelWords) => (MatchingPhrasesOf(args[1]) = <<>>)

(***************************************************************************)
(* C12: after the user asks for a translation into the indigenous language *)
(* the page shows the related-vocabulary panel if and only if the          *)
(* dictionary holds at least one entry that matches the submitted text,    *)
(* for every dictionary content.                                           *)
(***************************************************************************)
Submitted == page.pc = "end" /\ page.clicked /\ page.input_text # <<>>

PanelShown == page.panel # <<>>

C12_PanelIffMatch ==
    (Submitted /\ page.direction = "to_indigenous") =>
        (PanelShown <=> MatchPositions(page.input_text) # {})

(***************************************************************************)
(* C13: the request translate_to_indigenous sends carries, as dictionary   *)
(* context, the full vocabulary context followed by the block of matching  *)
(* phrases if and only if at least one phrase matches the text (otherwise  *)
(* the vocabulary context alone, never the phrase sentinel), and the       *)
(* grammar context; translate_to_spanish sends the vocabulary context and  *)
(* the grammar context only.                                               *)
(***************************************************************************)
VocabularyContext == get_all_vocabulary_context(dictionary).value

GrammarContext == get_grammar_context(grammar).value

PhrasesBlock(text) ==
    IF MatchingPhrasesOf(text) = <<>> THEN <<>>
    ELSE <<NL, NL, "FRASES SIMILARES CONOCIDAS:", NL>>
             \o Join(PhraseBlocks(MatchingPhrasesOf(text)), NL)

\* what follows the instructions of a translation request
ReferenceSections(dictionary_context) ==
    (IF dictionary_context = <<>> THEN <<>>
     ELSE <<NL, "DICCIONARIO DE REFERENCIA:", NL>> \o dictionary_context \o <<NL>>)
    \o (IF GrammarContext = <<>> THEN <<>>
        ELSE <<NL, "REGLAS GRAMATICALES:", NL>> \o GrammarContext \o <<NL>>)

IsSuffix(s, t) == Len(s) <= Len(t) /\ SubSeq(t, Len(t) - Len(s) + 1, Len(t)) = s

SentPrompt == requests[1].system_prompt

C13_TranslationContext ==
    /\ op = "translate_to_indigenous" =>
           /\ Len(requests) = 1
           /\ IsSuffix(ReferenceSections(VocabularyContext \o PhrasesBlock(args[1])), SentPrompt)
           /\ ~Contains(SentPrompt, <<"No se encontraron", " frases relevantes.">>)
    /\ op = "translate_to_spanish" =>
           /\ Len(requests) = 1
           /\ IsSuffix(ReferenceSections(VocabularyContext), SentPrompt)
           /\ ~Contains(SentPrompt, <<"FRASES SIMILARES CONOCIDAS:">>)

(***************************************************************************)
(* C14 (as stated): the request of explain_culture carries the cultural    *)
(* note of every phrase of the phrase book that has one, whichever of the  *)
(* three sections holds it, and of no phrase without one.                  *)
(***************************************************************************)
AskedCulture == op = "explain_culture"

HasNote(p) == "cultural_note" \in DOMAIN p /\ p.cultural_note # <<>>

NoteOf(p) == <<"- ">> \o p.spanish \o <<": ">> \o p.cultural_note

NotesHeader == <<"Notas culturales disponibles:", NL>>

\* the lines of the request after the header of the notes
SuppliedNotes ==
    LET at == CHOOSE i \in 1..Len(SentPrompt) :
                  SubSeq(SentPrompt, i, i + 1) = NotesHeader
        notes == SubSeq(SentPrompt, at + 2, Len(SentPrompt))
    IN IF notes = <<>> THEN <<>> ELSE SplitLines(notes)

NotedIn(ps) == SelectSeq(ps, HasNote)

C14_NotesOfEveryPhrase ==
    AskedCulture =>
        /\ Len(requests) = 1
        /\ \A i \in 1..Len(FlatPhrases) :
               HasNote(FlatPhrases[i]) =>
                   \E k \in 1..Len(SuppliedNotes) : SuppliedNotes[k] = NoteOf(FlatPhrases[i])
        /\ \A k \in 1..Len(SuppliedNotes) :
               \E i \in 1..Len(FlatPhrases) :
                   HasNote(FlatPhrases[i]) /\ SuppliedNotes[k] = NoteOf(FlatPhrases[i])

(***************************************************************************)
(* C14 (amended): the request of explain_culture carries one line for each *)
(* phrase of the cultural_expressions section that has a non-empty         *)
(* cultural note, in stored order, and nothing from the classroom and      *)
(* daily-interaction sections or from phrases without a note.              *)
(***************************************************************************)
C14_NotesOfCulturalExpressions ==
    AskedCulture =>
        /\ Len(requests) = 1
        /\ SuppliedNotes =
               [k \in 1..Len(NotedIn(SectionOf(3))) |-> NoteOf(NotedIn(SectionOf(3))[k])]

C14_Witness ==
    /\ AskedCulture
    /\ NotedIn(SectionOf(1)) # <<>>
    /\ Len(SectionOf(3)) = 2
    /\ Len(SuppliedNotes) = 1
    /\ ~requests[1].reply.raised

(***************************************************************************)
(* C15: when the user submits a non-empty text for translation, in either  *)
(* direction, and the endpoint answers, the handler has called the         *)
(* translator, the knowledge base has been read, one request carrying the  *)
(* vocabulary context and the text has gone to the endpoint, and the text  *)
(* of the endpoint's answer is displayed.                                  *)
(***************************************************************************)
NoRequestFailed == \A i \in 1..Len(requests) : ~requests[i].reply.raised

C15_TranslationFlowCompletes ==
    (Submitted /\ NoRequestFailed) =>
        /\ Len(requests) = 1
        /\ Contains(requests[1].system_prompt, VocabularyContext)
        /\ Contains(requests[1].user_message, page.input_text)
        /\ page.output = requests[1].reply.value
        /\ page.error = "none"

(***************************************************************************)
(* C16: a failure of the speech-to-text call is caught by the page and     *)
(* shown as a warning: after it the voice text is empty, the run of the    *)
(* page has not stopped, the user can still type any text and press the    *)
(* translate button, and the run reaches its end.                          *)
(***************************************************************************)
SpeechFailed == page.speech \notin {"none", "answered"}

C16_SpeechFailureIsSoft ==
    SpeechFailed =>
        /\ page.notice = "warning"
        /\ page.voice_text = <<>>
        /\ page.pc \in {"text", "translate", "end"}
        /\ page.pc = "text" =>
               \A typed \in Texts : ENABLED (TextSection /\ page'.input_text = typed)
        /\ page.pc = "translate" => ENABLED (TranslateSection /\ page'.clicked)
        /\ page.pc = "end" => ENABLED Rerun

C16_Witness ==
    /\ SpeechFailed
    /\ page.speech = "TimeoutError"
    /\ page.pc = "end"
    /\ page.clicked
    /\ page.input_text = <<"ma", "dre">>

(***************************************************************************)
(* C19: each of translate_to_indigenous, translate_to_spanish,             *)
(* generate_lesson and explain_culture sends exactly one request to the    *)
(* generation endpoint; when the endpoint fails the operation raises the   *)
(* endpoint's error and returns nothing, and when it answers the operation *)
(* returns.                                                                *)
(***************************************************************************)
OrchestrationOps ==
    {"translate_to_indigenous", "translate_to_spanish", "generate_lesson", "explain_culture"}

C19_OneEndpointCall ==
    op \in OrchestrationOps =>
        /\ Len(requests) = 1
        /\ requests[1].reply.raised =>
               (ret.raised /\ ret.value = requests[1].reply.value)
        /\ ~requests[1].reply.raised => ~ret.raised

C19_Witness ==
    /\ op = "translate_to_indigenous"
    /\ Len(requests) = 1
    /\ requests[1].reply = Raises("ClientError")
    /\ ret = Raises("ClientError")
    /\ MatchPositions(args[1]) # {}

(***************************************************************************)
(* C21: get_grammar_context returns the sentinel "No hay reglas            *)
(* gramaticales disponibles." when the grammar document is completely      *)
(* empty, and in no other case.                                            *)
(***************************************************************************)
C21_SentinelIffEmptyGrammar ==
    AskedGrammar =>
        /\ ~ret.raised
        /\ (ret.value = <<"No hay reglas gramaticales disponibles.">>)
               <=> (grammar = EmptyDoc)

C21_Witness ==
    /\ AskedGrammar
    /\ "grammar.json" \in data_files
    /\ grammar = EmptyDoc
    /\ ret.value = <<"No hay reglas gramaticales disponibles.">>

(***************************************************************************)
(* C22: the max_results check of search_dictionary leaves only the entry   *)
(* loop of the current category.  Entries are examined in iteration order  *)
(* until max_results matches are collected; from then on the rest of that  *)
(* category is skipped and of each later category the first entry, and     *)
(* only the first, is examined.  The lines returned are those of the       *)
(* examined entries that match, so with k categories there are at most     *)
(* max_results + (k - 1) of them.                                          *)
(***************************************************************************)
MatchesUpTo(j) ==
    {k \in 1..j : TermIn(EntryAt(ExaminedPositions[k]), SearchQuery)}

\* the examined entries before which the limit was already reached
AfterLimit == {j \in 1..Len(examined) : Cardinality(MatchesUpTo(j - 1)) >= SearchMax}

LimitWasReached == Cardinality(MatchesUpTo(Len(examined))) >= SearchMax

\* the index in examined of the entry that completed the limit
LimitEntry ==
    CHOOSE j \in 1..Len(examined) :
        /\ Cardinality(MatchesUpTo(j)) >= SearchMax
        /\ Cardinality(MatchesUpTo(j - 1)) < SearchMax

ExpectedExamined ==
    IF ~LimitWasReached THEN Positions
    ELSE {p \in Positions :
             \/ Before(p, ExaminedPositions[LimitEntry])
             \/ p = ExaminedPositions[LimitEntry]
             \/ p[1] > ExaminedPositions[LimitEntry][1] /\ p[2] = 1}

ExaminedMatches ==
    SelectSeq(ExaminedPositions, LAMBDA p : TermIn(EntryAt(p), SearchQuery))

TermOr(e, k) == IF k \in DOMAIN e THEN e[k] ELSE <<>>

LooseTermIn(e, query) ==
    \/ Contains(LowerText(TermOr(e, "spanish")), LowerText(query))
    \/ Contains(LowerText(TermOr(e, "awajun")), LowerText(query))

LooseEntriesOf(c) == IF "entries" \in DOMAIN Cats[c].value THEN Cats[c].value.entries ELSE <<>>

SomeEntryMatches(query) ==
    \E c \in 1..Len(Cats) : \E i \in 1..Len(LooseEntriesOf(c)) :
        LooseTermIn(LooseEntriesOf(c)[i], query)

SomePhraseMatches(query) ==
    \E i \in 1..Len(FlatPhrases) : LooseTermIn(FlatPhrases[i], query)

C23_NoFailureOnLooseData ==
    /\ Searched =>
           /\ ~ret.raised
           /\ SomeEntryMatches(SearchQuery)
                  <=> (ret.value # <<"No se encontraron", " entradas relevantes.">>)
    /\ AskedPhrases =>
           /\ ~ret.raised
           /\ SomePhraseMatches(args[1])
                  <=> (ret.value # <<"No se encontraron", " frases relevantes.">>)

(***************************************************************************)
(* C24: get_category_vocabulary returns the not-found message only for     *)
(* keys that get_available_categories does not list; for every listed key  *)
(* (whose entries carry both terms) it returns a header line followed by   *)
(* one line per entry, also when the category's record is empty.           *)
(***************************************************************************)
AvailableKeys ==
    {get_available_categories(dictionary).value[i]
        : i \in 1..Len(get_available_categories(dictionary).value)}

AskedKey == args[1]

AskedRecord == Cats[KeyIndex(AskedKey)].value

AskedEntries == IF "entries" \in DOMAIN AskedRecord THEN AskedRecord.entries ELSE <<>>

WellFormed(e) == {"awajun", "spanish"} \subseteq DOMAIN e

C24_ListedKeyYieldsBlock ==
    (/\ op = "get_category_vocabulary"
     /\ AskedKey \in AvailableKeys =>
            \A i \in 1..Len(AskedEntries) : WellFormed(AskedEntries[i])) =>
        /\ ~ret.raised
        /\ Contains(ret.value, <<"no encontrada">>) => AskedKey \notin AvailableKeys
        /\ AskedKey \in AvailableKeys =>
               /\ Len(ResultLines) = 1 + Len(AskedEntries)
               /\ ResultLines[1][1] = "## "

(***************************************************************************)
(* C25 (as stated): get_grammar_context never returns the empty string;    *)
(* whenever no section is rendered, the grammar being empty or holding     *)
(* none of the four recognised sections, the result is the no-grammar      *)
(* sentinel.                                                               *)
(***************************************************************************)
NoSectionShown == \A section \in GrammarSections : ~HeaderShown(section)

C25_NeverEmptyGrammarContext ==
    AskedGrammar =>
        /\ ~ret.raised
        /\ ret.value # <<>>
        /\ NoSectionShown => ret.value = <<"No hay reglas gramaticales disponibles.">>

(***************************************************************************)
(* C25 (amended): when no recognised section of the grammar is populated,  *)
(* get_grammar_context returns the sentinel for the completely empty       *)
(* grammar and the empty string otherwise; when a section is populated the *)
(* result is not empty.  A translation request carries the grammar section *)
(* exactly when the grammar context is not empty, and the section then     *)
(* holds that context, so it is never built from an empty context.         *)
(***************************************************************************)
NoSectionPopulated == \A section \in GrammarSections : ~SectionPopulated(section)

TranslationOps == {"translate_to_indigenous", "translate_to_spanish"}

GrammarHeader == "REGLAS GRAMATICALES:"

C25_EmptyContextOmitsSection ==
    /\ AskedGrammar =>
           /\ ~ret.raised
           /\ NoSectionPopulated =>
                  ret.value = (IF grammar = EmptyDoc
                               THEN <<"No hay reglas gramaticales disponibles.">>
                               ELSE <<>>)
           /\ ~NoSectionPopulated => ret.value # <<>>
    /\ op \in TranslationOps =>
           /\ Len(requests) = 1
           /\ Contains(SentPrompt, <<GrammarHeader>>) <=> (GrammarContext # <<>>)
           /\ GrammarContext # <<>> =>
                  IsSuffix(<<NL, GrammarHeader, NL>> \o GrammarContext \o <<NL>>, SentPrompt)

C25_Witness ==
    /\ op = "translate_to_spanish"
    /\ grammar # EmptyDoc
    /\ NoSectionPopulated
    /\ GrammarContext = <<>>
    /\ Len(requests) = 1
    /\ ~Contains(SentPrompt, <<GrammarHeader>>)

(***************************************************************************)
(* C26: a transcription that runs to its end sends the PCM audio as        *)
(* consecutive chunks of sample_rate * 2 bytes in increasing offset order, *)
(* the last one possibly shorter and none empty, so that the chunks put    *)
(* together are the input; end_stream is sent exactly once, after the last *)
(* chunk and before the transcript events are handled; and for empty PCM   *)
(* data transcribe_audio returns "" without contacting the endpoint.       *)
(***************************************************************************)
Transcribed == op = "transcribe_audio"

PcmGiven == args[1]

ChunkBytes == args[2] * 2

KindsSent == [i \in 1..Len(requests) |-> requests[i].kind]

ChunksSent ==
    LET audio == SelectSeq(requests, LAMBDA r : r.kind = "audio")
    IN [i \in 1..Len(audio) |-> audio[i].audio_chunk]

RECURSIVE Concat(_)
Concat(chunks) == IF chunks = <<>> THEN <<>> ELSE Head(chunks) \o Concat(Tail(chunks))

C26_ChunksCoverAudioOnce ==
    Transcribed =>
        /\ PcmGiven = <<>> => (requests = <<>> /\ ret = Returns(<<>>))
        /\ (PcmGiven # <<>> /\ ~ret.raised) =>
               LET n == Len(ChunksSent)
               IN /\ KindsSent = <<"start">> \o [i \in 1..n |-> "audio"] \o <<"end", "events">>
                  /\ Concat(ChunksSent) = PcmGiven
                  /\ \A i \in 1..(n - 1) : Len(ChunksSent[i]) = ChunkBytes
                  /\ n >= 1
                  /\ Len(ChunksSent[n]) \in 1..ChunkBytes
                  /\ \A i \in 1..n :
                         ChunksSent[i] =
                             SubSeq(PcmGiven, (i - 1) * ChunkBytes + 1,
                                    (i - 1) * ChunkBytes + Len(ChunksSent[i]))

C26_Witness ==
    /\ Transcribed
    /\ ~ret.raised
    /\ Len(PcmGiven) = 5
    /\ ChunkBytes = 2
    /\ Len(ChunksSent) = 3
    /\ Len(ChunksSent[3]) = 1
    /\ ret.value = <<"ma", " ", "dre">>

====
